---- MODULE Spec2Model ----
(***************************************************************************)
(* Ledger engine of the multi-tenant ledger API: the transfer and          *)
(* credit_debit handlers (src/src/handlers/accounts.rs) with the services  *)
(* they call (src/src/services/accounts.rs), run as concurrent requests    *)
(* against one PostgreSQL store (READ COMMITTED, row locks).               *)
(*                                                                         *)
(* A request advances one awaited store call at a time.  Every store call  *)
(* either succeeds or returns Err (the Err(_) arms of the code).  Writes   *)
(* made inside a database transaction are kept in the request's workspace  *)
(* tx[s] and reach the committed tables only at Commit.                    *)
(***************************************************************************)
EXTENDS Integers, FiniteSets, Sequences, TLC

\* ------------------------------------------------------------------ bounds
MaxInFlight == 2      \* requests being served at the same time
MaxOps == 3           \* requests started in one behaviour
MaxEndpoints == 2     \* webhook endpoints registered in one behaviour
MaxWorkers == 2       \* webhook dispatcher instances running side by side
MaxQueued == 1        \* webhook events queued when the dispatchers start
MaxApiKeys == 2       \* API keys generated in one behaviour

\* --------------------------------------------------------- program constants
OpeningBalance == 10000
MaxAttempts == 5      \* the dispatcher's `attempts >= 5`
BackoffBase == 10     \* the dequeue query's INTERVAL '10 seconds'
BatchLimit == 10      \* the dispatcher's LIMIT 10

Slots == 1..MaxInFlight
Business == {"X", "Y"}
Keys == {"k1", "k2"}
Accounts == {1, 2, 3}
\* rows of the accounts table: business_id and currency never change
AccountBusiness == [a \in Accounts |-> IF a = 2 THEN "Y" ELSE "X"]
AccountCurrency == [a \in Accounts |-> IF a = 3 THEN "EUR" ELSE "USD"]
IdemKeys == Business \X Keys

\* ------------------------------------------------------------ wire records
TransferRequest(b, f, t, n, k) ==
    [kind |-> "transfer", business_id |-> b, from_account_id |-> f,
     to_account_id |-> t, account_id |-> 0, amount |-> n,
     transaction_type |-> "", idempotency_key |-> k]

CreditDebitRequest(b, a, n, ty, k) ==
    [kind |-> "cd", business_id |-> b, from_account_id |-> 0,
     to_account_id |-> 0, account_id |-> a, amount |-> n,
     transaction_type |-> ty, idempotency_key |-> k]

NoRequest == TransferRequest("", 0, 0, 0, "")

NoResponse ==
    [kind |-> "none", transaction_id |-> 0, from_account_id |-> 0,
     to_account_id |-> 0, account_id |-> 0, amount |-> 0, currency |-> "",
     transaction_type |-> "", status |-> "", new_balance |-> 0,
     cached |-> FALSE]

TransferResponse(id, f, t, n, cur) ==
    [kind |-> "transfer", transaction_id |-> id, from_account_id |-> f,
     to_account_id |-> t, account_id |-> 0, amount |-> n, currency |-> cur,
     transaction_type |-> "", status |-> "success", new_balance |-> 0,
     cached |-> FALSE]

CreditDebitResponse(id, a, n, cur, ty, nb) ==
    [kind |-> "cd", transaction_id |-> id, from_account_id |-> 0,
     to_account_id |-> 0, account_id |-> a, amount |-> n, currency |-> cur,
     transaction_type |-> ty, status |-> "success", new_balance |-> nb,
     cached |-> FALSE]

\* the requests a behaviour of Spec draws from
Requests ==
    {TransferRequest("X", 1, 2, 6000, "k1"),
     TransferRequest("Y", 2, 1, 6000, "k1"),
     TransferRequest("X", 2, 1, 6000, "k2"),
     TransferRequest("X", 1, 3, 12000, "k1"),
     CreditDebitRequest("X", 1, 6000, "debit", "k2"),
     CreditDebitRequest("X", 1, 6000, "credit", "k2"),
     CreditDebitRequest("X", 2, 6000, "debit", "k2")}

VARIABLES
    balance,       \* accounts.balance, committed
    idem,          \* idempotency_keys rows, committed: status, response_body
    transactions,  \* transactions rows, committed
    events,        \* webhook_events rows, committed
    endpoints,     \* webhook_endpoints rows, committed
    lock,          \* accounts row lock: the slot whose transaction holds it, or 0
    idemLock,      \* idempotency_keys row lock: the holding slot, or 0
    pc,            \* each slot's position in its handler
    payload,       \* each slot's request
    tx,            \* each slot's uncommitted database transaction
    ghost,         \* each slot's history: request number, what reserve met
    last,          \* what the step just taken produced: the handler's response, or
                   \* the error its process_transfer / process_cd block ended with
    started,       \* requests started so far
    apiKeys,       \* api_keys rows, committed
    gate,          \* what the HTTP boundary did with the request just received
    workers        \* each webhook dispatcher instance: position, rows in hand

vars == <<balance, idem, transactions, events, endpoints, lock, idemLock,
          pc, payload, tx, ghost, last, started, apiKeys, gate, workers>>

\* what the ledger handlers never touch
aux == <<apiKeys, gate, workers>>

db == <<balance, idem, transactions, events>>

\* ------------------------------------------------------------ pure services

\* Uuid::parse_str on an account id of the wire: ids 1.. are well-formed
\* identifiers, 0 is a string that does not parse
ParseUuid(id) == IF id >= 1 THEN id ELSE -1

\* mutant: the amount is not looked at
validate_transfer_input_AnyAmount(p) ==
    IF ParseUuid(p.from_account_id) = -1 THEN "Invalid from_account_id format"
    ELSE IF ParseUuid(p.to_account_id) = -1 THEN "Invalid to_account_id format"
    ELSE ""

validate_transfer_input(p) ==
    IF p.amount <= 0 THEN "Amount must be positive"
    ELSE IF ParseUuid(p.from_account_id) = -1 THEN "Invalid from_account_id format"
    ELSE IF ParseUuid(p.to_account_id) = -1 THEN "Invalid to_account_id format"
    ELSE ""

validate_cd_input(p) ==
    IF p.amount <= 0 THEN "Amount must be positive"
    ELSE IF p.transaction_type # "credit" /\ p.transaction_type # "debit"
         THEN "Invalid transaction_type. Must be 'credit' or 'debit'"
    ELSE IF ParseUuid(p.account_id) = -1 THEN "Invalid account_id format"
    ELSE ""

\* the cached response, or NoResponse: a read error, a row that is not success
\* and a body that does not deserialize as the handler's response type all miss
check_idempotency_cache(row, kind, readOk) ==
    IF readOk /\ row.status = "success" /\ row.response_body.kind = kind
    THEN row.response_body
    ELSE NoResponse

\* INSERT ... ON CONFLICT DO UPDATE SET created_at = NOW() WHERE status is
\* neither success nor pending: the row afterwards and the rows affected
reserve_upsert(row) ==
    IF row.status = "absent"
    THEN [row |-> [row EXCEPT !.status = "pending"], rows_affected |-> 1]
    ELSE IF row.status # "success" /\ row.status # "pending"
    THEN [row |-> row, rows_affected |-> 1]
    ELSE [row |-> row, rows_affected |-> 0]

\* the follow-up read of reserve_idempotency_key after zero rows were affected
reserve_followup(readOk, status) ==
    IF readOk /\ status = "pending" THEN "Operation in progress"
    ELSE IF readOk /\ status = "success" THEN "Operation already completed successfully"
    ELSE ""

\* mutant: the source query without its business_id condition
OwnedRow_AnyBusiness(id, b) == id \in Accounts

\* the row the source query of fetch_and_validate_accounts and the query of
\* fetch_account select: WHERE id = $1 AND business_id = $2
OwnedRow(id, b) == id \in Accounts /\ AccountBusiness[id] = b

\* the row the destination query selects: WHERE id = $1
AnyRow(id) == id \in Accounts

\* mutant: the two currencies are not compared
validate_accounts_AnyCurrency(f, t, n, bal) ==
    IF bal[f] < n THEN "Insufficient balance" ELSE ""

\* the checks of fetch_and_validate_accounts once both rows are held
validate_accounts(f, t, n, bal) ==
    IF AccountCurrency[f] # AccountCurrency[t] THEN "Currency mismatch"
    ELSE IF bal[f] < n THEN "Insufficient balance"
    ELSE ""

\* mutant: a debit that is not checked against the balance
validate_debit_Unchecked(is_credit, current_balance, n) == ""

\* the debit check of credit_debit once the row is held
validate_debit(is_credit, current_balance, n) ==
    IF ~is_credit /\ current_balance < n THEN "Insufficient balance" ELSE ""

ZeroDelta == [a \in Accounts |-> 0]

\* mutant: the source is debited and the destination is never credited
execute_balance_transfer_NoCredit(delta, f, t, n) == [delta EXCEPT ![f] = @ - n]

\* mutant: both new balances are computed from the balances as they were
\* before the first UPDATE
execute_balance_transfer_FromReadValues(delta, f, t, n) ==
    [a \in Accounts |-> IF a = t THEN delta[a] + n
                        ELSE IF a = f THEN delta[a] - n
                        ELSE delta[a]]

\* UPDATE accounts SET balance = balance - $1 WHERE id = from;
\* UPDATE accounts SET balance = balance + $1 WHERE id = to
execute_balance_transfer(delta, f, t, n) ==
    LET d1 == [delta EXCEPT ![f] = @ - n]
    IN  [d1 EXCEPT ![t] = @ + n]

\* mutant: the operator is "-" for a credit too
update_balance_AlwaysSubtracts(delta, a, n, is_credit) == [delta EXCEPT ![a] = @ - n]

\* mutant: the operator is "+" for a debit too
update_balance_AlwaysAdds(delta, a, n, is_credit) == [delta EXCEPT ![a] = @ + n]

\* UPDATE accounts SET balance = balance +/- $1 WHERE id = $2
update_balance(delta, a, n, is_credit) ==
    [delta EXCEPT ![a] = IF is_credit THEN @ + n ELSE @ - n]

create_transaction_record(id, b, f, t, n, k) ==
    [id |-> id, business_id |-> b, from_account_id |-> f, to_account_id |-> t,
     amount |-> n, type |-> "transfer", status |-> "success",
     idempotency_key |-> k]

\* mutant: the account is recorded on the from side for a credit too
create_cd_record_FromSide(id, b, a, n, ty, k) ==
    [id |-> id, business_id |-> b, from_account_id |-> a, to_account_id |-> 0,
     amount |-> n, type |-> ty, status |-> "success", idempotency_key |-> k]

create_cd_record(id, b, a, n, ty, k) ==
    [id |-> id, business_id |-> b,
     from_account_id |-> IF ty = "credit" THEN 0 ELSE a,
     to_account_id |-> IF ty = "credit" THEN a ELSE 0,
     amount |-> n, type |-> ty, status |-> "success", idempotency_key |-> k]

\* webhook_events.last_attempt_at: NULL, or a timestamp, kept as the seconds
\* that have passed since it
Never == [set |-> FALSE, ago |-> 0]
Since(seconds) == [set |-> TRUE, ago |-> seconds]

\* mutant: the endpoints are selected without the business_id condition
create_webhook_event_AnyBusiness(eps, b, event_type, resp) ==
    {[id |-> <<resp.transaction_id, e.id>>, webhook_endpoint_id |-> e.id,
      event_type |-> event_type, payload |-> resp,
      status |-> "pending", attempts |-> 0, last_attempt_at |-> Never]
        : e \in {x \in eps : x.is_active}}

\* one webhook_events row for every active endpoint of the business; id is
\* the column's generated identifier, status, attempts and last_attempt_at
\* take the column defaults
create_webhook_event(eps, b, event_type, resp) ==
    {[id |-> <<resp.transaction_id, e.id>>, webhook_endpoint_id |-> e.id,
      event_type |-> event_type, payload |-> resp,
      status |-> "pending", attempts |-> 0, last_attempt_at |-> Never]
        : e \in {x \in eps : x.business_id = b /\ x.is_active}}

\* mutant: the UPDATE stores the response and leaves the status
store_idempotency_key_ResponseOnly(row, resp) ==
    IF row.status = "absent" THEN row ELSE [row EXCEPT !.response_body = resp]

\* UPDATE idempotency_keys SET response_body = $1, status = 'success'
store_idempotency_key(row, resp) ==
    IF row.status = "absent" THEN row
    ELSE [status |-> "success", response_body |-> resp]

\* mutant: the out-of-band update matches no row
fail_idempotency_key_NoRow(row) == row

\* UPDATE idempotency_keys SET status = 'failed'
fail_idempotency_key(row) ==
    IF row.status = "absent" THEN row ELSE [row EXCEPT !.status = "failed"]

EventType(p) ==
    IF p.kind = "transfer" THEN "transfer.created"
    ELSE IF p.transaction_type = "credit" THEN "credit.created"
    ELSE "debit.created"

\* ------------------------------------------------------ webhook dispatcher
Workers == 1..MaxWorkers

\* what the endpoint answers to a POST: a 2xx status, another status, or no
\* answer (reqwest's Err)
HttpResults == {"2xx", "non2xx", "transport"}

\* mutant: a row is due as soon as the interval is reached
Backoff_Reached(t, attempts) ==
    ~t.set \/ t.ago >= BackoffBase * (attempts + 1)

\* last_attempt_at IS NULL OR
\* last_attempt_at < NOW() - INTERVAL '10 seconds' * (attempts + 1)
Backoff(t, attempts) ==
    ~t.set \/ t.ago > BackoffBase * (attempts + 1)

\* the WHERE clause of the dequeue query: pending events of an active endpoint
\* whose backoff has passed
DueEvents(evs, eps) ==
    {e \in evs :
        /\ e.status = "pending"
        /\ \E ep \in eps : ep.id = e.webhook_endpoint_id /\ ep.is_active
        /\ Backoff(e.last_attempt_at, e.attempts)}

\* the columns of a selected row the loop uses
QueueRow(e) == [id |-> e.id, attempts |-> e.attempts]

\* the results fetch_all can give for the due rows: LIMIT 10 of them, in any
\* order (the query has no ORDER BY)
Batches(due) ==
    LET n == IF Cardinality(due) < BatchLimit THEN Cardinality(due) ELSE BatchLimit
    IN  {q \in [1..n -> {QueueRow(e) : e \in due}] :
            \A i, j \in 1..n : i # j => q[i] # q[j]}

\* the match on the POST's result; attempts is the value the query selected
new_status(result, attempts) ==
    IF result = "2xx" THEN "delivered"
    ELSE IF attempts >= MaxAttempts THEN "failed"
    ELSE "pending"

\* mutant: the UPDATE leaves attempts as it was
update_event_NoIncrement(evs, id, st) ==
    {IF e.id = id THEN [e EXCEPT !.status = st, !.last_attempt_at = Since(0)]
     ELSE e : e \in evs}

\* mutant: the UPDATE matches no row
update_event_NoRow(evs, id, st) == evs

\* UPDATE webhook_events SET status = $1, last_attempt_at = NOW(),
\* attempts = attempts + 1 WHERE id = $2
update_event(evs, id, st) ==
    {IF e.id = id
     THEN [e EXCEPT !.status = st, !.last_attempt_at = Since(0), !.attempts = @ + 1]
     ELSE e : e \in evs}

IdleWorker == [pc |-> "dequeue", rows |-> <<>>, status |-> ""]

\* ------------------------------------------------------------ HTTP boundary

\* hex::encode(Sha256(key)): a digest, different for different keys
Sha256Hex(k) == [sha256 |-> k]

ApiKeyRow(k, b, active) ==
    [key_hash |-> Sha256Hex(k), business_id |-> b, is_active |-> active]

\* the keys of the two businesses, and a key of Y that was revoked in the
\* store (is_active = false; no handler of the repository revokes a key)
InitialApiKeys ==
    {ApiKeyRow("sk_live_x", "X", TRUE), ApiKeyRow("sk_live_y", "Y", TRUE),
     ApiKeyRow("sk_live_r", "Y", FALSE)}

\* the keys generate_api_key draws, in the order it draws them
KeyNames == <<"sk_live_1", "sk_live_2", "sk_live_3", "sk_live_4">>

\* the Authorization header of a request: absent, bytes that
\* HeaderValue::to_str refuses, or a string
NoHeader == [present |-> FALSE, text |-> FALSE, value |-> ""]
OpaqueHeader == [present |-> TRUE, text |-> FALSE, value |-> ""]
Header(v) == [present |-> TRUE, text |-> TRUE, value |-> v]

Headers ==
    {NoHeader, OpaqueHeader, Header(""), Header("sk_live_0"), Header("sk_live_x"),
     Header("sk_live_r"), Header("sk_live_1")}

ProtectedRoutes ==
    {"/accounts/create", "/accounts/transfer", "/accounts/credit-debit",
     "/webhooks/register", "/webhooks/list"}

PublicRoutes == {"/accounts"}

HandlerOf(route) ==
    CASE route = "/accounts/create" -> "create_account"
      [] route = "/accounts/transfer" -> "transfer"
      [] route = "/accounts/credit-debit" -> "credit_debit"
      [] route = "/webhooks/register" -> "register_webhook_handler"
      [] route = "/webhooks/list" -> "list_webhooks_handler"
      [] route = "/accounts" -> "get_accounts"

\* a layer answers the request itself with this status
Reject(status) == [next |-> FALSE, status |-> status, business_id |-> ""]

\* a layer hands the request to the service it wraps
Forward(b) == [next |-> TRUE, status |-> 0, business_id |-> b]

\* ApiKeyExtractor::extract: the header as a string, or UnableToExtractKey
extract(h) == [ok |-> h.present /\ h.text, key |-> h.value]

\* GovernorLayer with ApiKeyExtractor, the outermost layer of the protected
\* routers: a request whose key cannot be extracted is answered by the layer
\* with the error's response (500), one over its quota with 429
governor_layer(h, throttled) ==
    IF ~extract(h).ok THEN Reject(500)
    ELSE IF throttled THEN Reject(429)
    ELSE Forward("")

auth_middleware(h, rows, readOk) ==
    LET api_key == IF h.present /\ h.text THEN h.value ELSE ""
        hits == {r \in rows : r.key_hash = Sha256Hex(api_key) /\ r.is_active}
    IN  IF api_key = "" THEN Reject(401)
        ELSE IF ~readOk THEN Reject(500)
        ELSE IF hits = {} THEN Reject(401)
        ELSE Forward((CHOOSE r \in hits : TRUE).business_id)

NoGate ==
    [route |-> "", header |-> NoHeader, throttled |-> FALSE, store_error |-> FALSE,
     status |-> 0, handler |-> "", business_id |-> ""]

\* ------------------------------------------------------------------- state
EmptyTx ==
    [delta |-> ZeroDelta, txn |-> {}, evs |-> {}, idemw |-> FALSE,
     resp |-> NoResponse]

\* retry: reserve's upsert met a failed row; dup: a transaction of the same
\* request was committed before this request started
NoGhost == [retry |-> FALSE, dup |-> FALSE]

NoLast ==
    [step |-> "", request |-> NoRequest, err |-> "", resp |-> NoResponse,
     retry |-> FALSE, dup |-> FALSE]

IKey(s) == <<payload[s].business_id, payload[s].idempotency_key>>

Init ==
    /\ balance = [a \in Accounts |-> OpeningBalance]
    /\ idem = [ik \in IdemKeys |-> [status |-> "absent", response_body |-> NoResponse]]
    /\ transactions = {}
    /\ events = {}
    /\ endpoints = {}
    /\ lock = [a \in Accounts |-> 0]
    /\ idemLock = [ik \in IdemKeys |-> 0]
    /\ pc = [s \in Slots |-> "idle"]
    /\ payload = [s \in Slots |-> NoRequest]
    /\ tx = [s \in Slots |-> EmptyTx]
    /\ ghost = [s \in Slots |-> NoGhost]
    /\ last = NoLast
    /\ started = 0
    /\ apiKeys = InitialApiKeys
    /\ gate = NoGate
    /\ workers = [w \in Workers |-> IdleWorker]

Out(step, s, e, resp) ==
    [step |-> step, request |-> payload[s], err |-> e, resp |-> resp,
     retry |-> ghost[s].retry, dup |-> ghost[s].dup]

\* the handler returns Ok(Json(resp)) or Err(Json(e)); the slot is free again
Return(step, s, e, resp) ==
    /\ pc' = [pc EXCEPT ![s] = "idle"]
    /\ payload' = [payload EXCEPT ![s] = NoRequest]
    /\ ghost' = [ghost EXCEPT ![s] = NoGhost]
    /\ last' = Out(step, s, e, resp)
    /\ UNCHANGED aux

\* process_transfer / process_cd ends with Err(e), the error the handler will
\* return: the sqlx transaction is dropped, which rolls it back and releases
\* its row locks; the handler goes on to fail_idempotency_key
Rollback(s, e) ==
    /\ pc' = [pc EXCEPT ![s] = "fail"]
    /\ tx' = [tx EXCEPT ![s] = EmptyTx]
    /\ lock' = [a \in Accounts |-> IF lock[a] = s THEN 0 ELSE lock[a]]
    /\ idemLock' = [ik \in IdemKeys |-> IF idemLock[ik] = s THEN 0 ELSE idemLock[ik]]
    /\ last' = Out("Rollback", s, e, NoResponse)
    /\ UNCHANGED <<db, endpoints, payload, ghost, started, aux>>

\* the request goes on to its next store call
Goto(s, next) ==
    /\ pc' = [pc EXCEPT ![s] = next]
    /\ last' = NoLast
    /\ UNCHANGED <<payload, started, aux>>

SameRequest(t, p) ==
    /\ t.business_id = p.business_id
    /\ t.idempotency_key = p.idempotency_key
    /\ t.amount = p.amount
    /\ IF p.kind = "transfer"
       THEN t.type = "transfer" /\ t.from_account_id = p.from_account_id
            /\ t.to_account_id = p.to_account_id
       ELSE t.type = p.transaction_type
            /\ p.account_id \in {t.from_account_id, t.to_account_id}

\* -------------------------------------------------- transfer, credit_debit

\* the first store call of process_transfer / process_cd
First(s) == IF payload[s].kind = "transfer" THEN "fetch_from" ELSE "fetch_account"

\* the handler is entered with the business_id the auth middleware attached;
\* it validates its input
Start(s, p) ==
    /\ pc[s] = "idle"
    /\ \A q \in Slots : q < s => pc[q] # "idle"
    /\ started < MaxOps
    /\ started' = started + 1
    /\ LET e == IF p.kind = "transfer" THEN validate_transfer_input(p)
                ELSE validate_cd_input(p)
       IN  IF e # ""
           THEN /\ UNCHANGED <<pc, payload, ghost>>
                /\ last' = [NoLast EXCEPT !.step = "Start", !.request = p, !.err = e]
           ELSE /\ pc' = [pc EXCEPT ![s] = "check"]
                /\ payload' = [payload EXCEPT ![s] = p]
                /\ ghost' = [ghost EXCEPT ![s] =
                      [retry |-> FALSE,
                       dup |-> \E t \in transactions : SameRequest(t, p)]]
                /\ last' = NoLast
    /\ UNCHANGED <<db, endpoints, lock, idemLock, tx, aux>>

CheckCache(s) ==
    /\ pc[s] = "check"
    /\ \E readOk \in BOOLEAN :
         LET c == check_idempotency_cache(idem[IKey(s)], payload[s].kind, readOk)
         IN  IF c # NoResponse
             THEN Return("CheckCache", s, "", [c EXCEPT !.cached = TRUE])
                  /\ UNCHANGED started
             ELSE Goto(s, "reserve") /\ UNCHANGED ghost
    /\ UNCHANGED <<db, endpoints, lock, idemLock, tx>>

\* the upsert of reserve_idempotency_key, on the pool: it waits for a
\* transaction that holds the row
ReserveUpsert(s) ==
    /\ pc[s] = "reserve"
    /\ \/ /\ idemLock[IKey(s)] = 0
          /\ LET u == reserve_upsert(idem[IKey(s)])
             IN  /\ idem' = [idem EXCEPT ![IKey(s)] = u.row]
                 /\ pc' = [pc EXCEPT ![s] =
                       IF u.rows_affected = 0 THEN "reserve_read" ELSE First(s)]
                 /\ ghost' = [ghost EXCEPT ![s].retry = (idem[IKey(s)].status = "failed")]
          /\ last' = NoLast
          /\ UNCHANGED <<payload, started, aux>>
       \/ /\ Return("ReserveUpsert", s, "Failed to reserve idempotency key", NoResponse)
          /\ UNCHANGED <<idem, started>>
    /\ UNCHANGED <<balance, transactions, events, endpoints, lock, idemLock, tx>>

ReserveRead(s) ==
    /\ pc[s] = "reserve_read"
    /\ \E readOk \in BOOLEAN :
         LET e == reserve_followup(readOk, idem[IKey(s)].status)
         IN  IF e # ""
             THEN Return("ReserveRead", s, e, NoResponse) /\ UNCHANGED started
             ELSE Goto(s, First(s)) /\ UNCHANGED ghost
    /\ UNCHANGED <<db, endpoints, lock, idemLock, tx>>

\* a fresh transactions.id: the column's generated identifier
FreshId ==
    CHOOSE i \in 1..(MaxOps + MaxInFlight) :
        /\ \A t \in transactions : t.id # i
        /\ \A q \in Slots : \A t \in tx[q].txn : t.id # i
        /\ \A j \in 1..(i - 1) :
              \/ \E t \in transactions : t.id = j
              \/ \E q \in Slots : \E t \in tx[q].txn : t.id = j

\* pool.begin() and the source row of fetch_and_validate_accounts:
\* SELECT ... WHERE id = $1 AND business_id = $2 FOR UPDATE
FetchFrom(s) ==
    LET p == payload[s] f == p.from_account_id
    IN  /\ pc[s] = "fetch_from"
        /\ \/ /\ OwnedRow(f, p.business_id)
              /\ lock[f] \in {0, s}
              /\ lock' = [lock EXCEPT ![f] = s]
              /\ Goto(s, "fetch_to")
              /\ UNCHANGED <<db, endpoints, idemLock, tx, ghost>>
           \/ /\ ~OwnedRow(f, p.business_id)
              /\ Rollback(s, "Source account not found or does not belong to this business")
           \/ Rollback(s, "Failed to start transaction")
           \/ Rollback(s, "Failed to fetch source account")

\* the destination row of fetch_and_validate_accounts, SELECT ... WHERE
\* id = $1 FOR UPDATE, and the checks on the two rows
FetchTo(s) ==
    LET p == payload[s] f == p.from_account_id t == p.to_account_id
    IN  /\ pc[s] = "fetch_to"
        /\ \/ /\ AnyRow(t)
              /\ lock[t] \in {0, s}
              /\ LET e == validate_accounts(f, t, p.amount, balance)
                 IN  IF e # "" THEN Rollback(s, e)
                     ELSE /\ lock' = [lock EXCEPT ![t] = s]
                          /\ Goto(s, "execute")
                          /\ UNCHANGED <<db, endpoints, idemLock, tx, ghost>>
           \/ /\ ~AnyRow(t)
              /\ Rollback(s, "Destination account not found")
           \/ Rollback(s, "Failed to fetch destination account")

\* execute_balance_transfer, create_transaction_record and the response
Execute(s) ==
    LET p == payload[s] id == FreshId
    IN  /\ pc[s] = "execute"
        /\ \/ /\ tx' = [tx EXCEPT
                    ![s].delta = execute_balance_transfer(
                                   @, p.from_account_id, p.to_account_id, p.amount),
                    ![s].txn = {create_transaction_record(id, p.business_id,
                                  p.from_account_id, p.to_account_id, p.amount,
                                  p.idempotency_key)},
                    ![s].resp = TransferResponse(id, p.from_account_id,
                                  p.to_account_id, p.amount,
                                  AccountCurrency[p.from_account_id])]
              /\ Goto(s, "webhook")
              /\ UNCHANGED <<db, endpoints, lock, idemLock, ghost>>
           \/ Rollback(s, "Failed to debit source account")
           \/ Rollback(s, "Failed to credit destination account")
           \/ Rollback(s, "Failed to create transaction record")

\* pool.begin(), fetch_account and the debit check of credit_debit
FetchAccount(s) ==
    LET p == payload[s] a == p.account_id
    IN  /\ pc[s] = "fetch_account"
        /\ \/ /\ OwnedRow(a, p.business_id)
              /\ lock[a] \in {0, s}
              /\ LET e == validate_debit(p.transaction_type = "credit",
                                         balance[a], p.amount)
                 IN  IF e # "" THEN Rollback(s, e)
                     ELSE /\ lock' = [lock EXCEPT ![a] = s]
                          /\ Goto(s, "update_balance")
                          /\ UNCHANGED <<db, endpoints, idemLock, tx, ghost>>
           \/ /\ ~OwnedRow(a, p.business_id)
              /\ Rollback(s, "Account not found or does not belong to this business")
           \/ Rollback(s, "Failed to start transaction")
           \/ Rollback(s, "Failed to fetch account")

\* update_balance (RETURNING balance), create_cd_record and the response
UpdateBalance(s) ==
    LET p == payload[s] a == p.account_id id == FreshId
        d == update_balance(tx[s].delta, a, p.amount, p.transaction_type = "credit")
    IN  /\ pc[s] = "update_balance"
        /\ \/ /\ tx' = [tx EXCEPT
                    ![s].delta = d,
                    ![s].txn = {create_cd_record(id, p.business_id, a, p.amount,
                                  p.transaction_type, p.idempotency_key)},
                    ![s].resp = CreditDebitResponse(id, a, p.amount,
                                  AccountCurrency[a], p.transaction_type,
                                  balance[a] + d[a])]
              /\ Goto(s, "webhook")
              /\ UNCHANGED <<db, endpoints, lock, idemLock, ghost>>
           \/ Rollback(s, "Failed to update balance")
           \/ Rollback(s, "Failed to create transaction record")

\* create_webhook_event: the endpoints are read now, inside the transaction
Webhook(s) ==
    /\ pc[s] = "webhook"
    /\ \/ /\ tx' = [tx EXCEPT ![s].evs = create_webhook_event(endpoints,
                       payload[s].business_id, EventType(payload[s]), tx[s].resp)]
          /\ Goto(s, "store_key")
          /\ UNCHANGED <<db, endpoints, lock, idemLock, ghost>>
       \/ Rollback(s, "Failed to fetch webhook endpoints")
       \/ /\ \E e \in endpoints : e.business_id = payload[s].business_id
          /\ Rollback(s, "Failed to create webhook event")

\* store_idempotency_key: an UPDATE inside the transaction, which takes the
\* row's lock
StoreKey(s) ==
    /\ pc[s] = "store_key"
    /\ \/ /\ idemLock[IKey(s)] \in {0, s}
          /\ idemLock' = [idemLock EXCEPT ![IKey(s)] =
                IF idem[IKey(s)].status = "absent" THEN @ ELSE s]
          /\ tx' = [tx EXCEPT ![s].idemw = TRUE]
          /\ Goto(s, "commit")
          /\ UNCHANGED <<db, endpoints, lock, ghost>>
       \/ Rollback(s, "Failed to update idempotency key")

Commit(s) ==
    /\ pc[s] = "commit"
    /\ \/ /\ balance' = [a \in Accounts |-> balance[a] + tx[s].delta[a]]
          /\ transactions' = transactions \cup tx[s].txn
          /\ events' = events \cup tx[s].evs
          /\ idem' = [idem EXCEPT ![IKey(s)] =
                IF tx[s].idemw THEN store_idempotency_key(@, tx[s].resp) ELSE @]
          /\ lock' = [a \in Accounts |-> IF lock[a] = s THEN 0 ELSE lock[a]]
          /\ idemLock' = [ik \in IdemKeys |-> IF idemLock[ik] = s THEN 0 ELSE idemLock[ik]]
          /\ tx' = [tx EXCEPT ![s] = EmptyTx]
          /\ Return("Commit", s, "", tx[s].resp)
          /\ UNCHANGED <<endpoints, started>>
       \/ Rollback(s, "Failed to commit transaction")

\* fail_idempotency_key on the pool, an UPDATE that waits for a transaction
\* holding the row; the handler discards its result and returns the error
FailKey(s) ==
    /\ pc[s] = "fail"
    /\ \/ /\ idemLock[IKey(s)] = 0
          /\ idem' = [idem EXCEPT ![IKey(s)] = fail_idempotency_key(@)]
          /\ Return("FailKey", s, "", NoResponse)
       \/ /\ Return("FailKey", s, "Failed to set idempotency key failure status",
                    NoResponse)
          /\ UNCHANGED idem
    /\ UNCHANGED <<balance, transactions, events, endpoints, lock, idemLock,
                   tx, started>>

\* mutant: the registration queues an event for every committed Transaction
\* of the business
register_webhook_Backfills(b) ==
    /\ Cardinality(endpoints) < MaxEndpoints
    /\ endpoints' = endpoints \cup
          {[id |-> Cardinality(endpoints) + 1, business_id |-> b, is_active |-> TRUE]}
    /\ events' = events \cup
          {[id |-> <<t.id, Cardinality(endpoints) + 1>>,
            webhook_endpoint_id |-> Cardinality(endpoints) + 1,
            event_type |-> "transfer.created", payload |-> NoResponse,
            status |-> "pending", attempts |-> 0, last_attempt_at |-> Never]
              : t \in {x \in transactions : x.business_id = b}}
    /\ last' = NoLast
    /\ UNCHANGED <<balance, idem, transactions, lock, idemLock, pc, payload, tx,
                   ghost, started>>

\* register_webhook: is_active takes the column's default
register_webhook(b) ==
    /\ Cardinality(endpoints) < MaxEndpoints
    /\ endpoints' = endpoints \cup
          {[id |-> Cardinality(endpoints) + 1, business_id |-> b, is_active |-> TRUE]}
    /\ last' = NoLast
    /\ UNCHANGED <<db, lock, idemLock, pc, payload, tx, ghost, started>>

RegisterWebhook(b) == register_webhook(b) /\ UNCHANGED aux

Next ==
    \/ \E s \in Slots, p \in Requests : Start(s, p)
    \/ \E s \in Slots : CheckCache(s)
    \/ \E s \in Slots : ReserveUpsert(s)
    \/ \E s \in Slots : ReserveRead(s)
    \/ \E s \in Slots : FetchFrom(s)
    \/ \E s \in Slots : FetchTo(s)
    \/ \E s \in Slots : Execute(s)
    \/ \E s \in Slots : FetchAccount(s)
    \/ \E s \in Slots : UpdateBalance(s)
    \/ \E s \in Slots : Webhook(s)
    \/ \E s \in Slots : StoreKey(s)
    \/ \E s \in Slots : Commit(s)
    \/ \E s \in Slots : FailKey(s)
    \/ \E b \in Business : RegisterWebhook(b)

Spec == Init /\ [][Next]_vars

\* ------------------------------------------------------ malformed requests

\* requests of business X that input validation turns away (an amount of 0,
\* a negative amount, an account id that is no UUID, a transaction_type that
\* is neither credit nor debit), and two well-formed ones with the same keys
ValidationRequests ==
    {TransferRequest("X", 1, 2, 0, "k1"),
     TransferRequest("X", 1, 2, -6000, "k1"),
     TransferRequest("X", 0, 2, 6000, "k1"),
     TransferRequest("X", 1, 0, 6000, "k1"),
     CreditDebitRequest("X", 1, 0, "credit", "k2"),
     CreditDebitRequest("X", 1, 6000, "refund", "k2"),
     CreditDebitRequest("X", 0, 6000, "debit", "k2"),
     TransferRequest("X", 1, 2, 6000, "k1"),
     CreditDebitRequest("X", 1, 6000, "debit", "k2")}

ValidationNext ==
    \/ \E s \in Slots, p \in ValidationRequests : Start(s, p)
    \/ \E s \in Slots : CheckCache(s)
    \/ \E s \in Slots : ReserveUpsert(s)
    \/ \E s \in Slots : ReserveRead(s)
    \/ \E s \in Slots : FetchFrom(s)
    \/ \E s \in Slots : FetchTo(s)
    \/ \E s \in Slots : Execute(s)
    \/ \E s \in Slots : FetchAccount(s)
    \/ \E s \in Slots : UpdateBalance(s)
    \/ \E s \in Slots : Webhook(s)
    \/ \E s \in Slots : StoreKey(s)
    \/ \E s \in Slots : Commit(s)
    \/ \E s \in Slots : FailKey(s)
    \/ \E b \in Business : RegisterWebhook(b)

ValidationSpec == Init /\ [][ValidationNext]_vars

\* ------------------------------------------------------------ self-transfer

\* transfers whose source is their destination: on an account of the caller,
\* of the whole balance, and on an account of another business; a debit on
\* the same account competes for the row and lowers the balance
SelfTransferRequests ==
    {TransferRequest("X", 1, 1, 6000, "k1"),
     TransferRequest("Y", 2, 2, OpeningBalance, "k1"),
     TransferRequest("X", 2, 2, 6000, "k2"),
     CreditDebitRequest("X", 1, 6000, "debit", "k2")}

SelfTransferNext ==
    \/ \E s \in Slots, p \in SelfTransferRequests : Start(s, p)
    \/ \E s \in Slots : CheckCache(s)
    \/ \E s \in Slots : ReserveUpsert(s)
    \/ \E s \in Slots : ReserveRead(s)
    \/ \E s \in Slots : FetchFrom(s)
    \/ \E s \in Slots : FetchTo(s)
    \/ \E s \in Slots : Execute(s)
    \/ \E s \in Slots : FetchAccount(s)
    \/ \E s \in Slots : UpdateBalance(s)
    \/ \E s \in Slots : Webhook(s)
    \/ \E s \in Slots : StoreKey(s)
    \/ \E s \in Slots : Commit(s)
    \/ \E s \in Slots : FailKey(s)
    \/ \E b \in Business : RegisterWebhook(b)

SelfTransferSpec == Init /\ [][SelfTransferNext]_vars

\* ------------------------------------------- a debit and a credit of n

\* business X debits n from its account 1 with key k1 and credits n to it
\* with key k2; n is part or all of the opening balance
RoundTripRequests ==
    {CreditDebitRequest("X", 1, n, ty, IF ty = "debit" THEN "k1" ELSE "k2")
        : n \in {6000, OpeningBalance}, ty \in {"debit", "credit"}}

RoundTripNext ==
    \/ \E s \in Slots, p \in RoundTripRequests : Start(s, p)
    \/ \E s \in Slots : CheckCache(s)
    \/ \E s \in Slots : ReserveUpsert(s)
    \/ \E s \in Slots : ReserveRead(s)
    \/ \E s \in Slots : FetchAccount(s)
    \/ \E s \in Slots : UpdateBalance(s)
    \/ \E s \in Slots : Webhook(s)
    \/ \E s \in Slots : StoreKey(s)
    \/ \E s \in Slots : Commit(s)
    \/ \E s \in Slots : FailKey(s)
    \/ \E b \in Business : RegisterWebhook(b)

RoundTripSpec == Init /\ [][RoundTripNext]_vars

\* ------------------------------------------------- requests at the boundary

\* what the layers of a route answer: the protected routers run the rate
\* limiter first and auth_middleware inside it, the public route has neither
layers(route, h, throttled, readOk) ==
    IF route \in PublicRoutes THEN Forward("")
    ELSE IF ~governor_layer(h, throttled).next THEN governor_layer(h, throttled)
    ELSE auth_middleware(h, apiKeys, readOk)

\* a request arrives on a route with an Authorization header h; when the
\* layers let it through, the handler of the route is called with the
\* business they attached (gate records the call; register_webhook_handler
\* stores its endpoint)
Receive(route, h) ==
    \E throttled, readOk \in BOOLEAN :
        LET out == layers(route, h, throttled, readOk)
        IN  /\ gate' = [route |-> route, header |-> h, throttled |-> throttled,
                        store_error |-> ~readOk, status |-> out.status,
                        handler |-> IF out.next THEN HandlerOf(route) ELSE "",
                        business_id |-> out.business_id]
            /\ UNCHANGED <<apiKeys, workers>>
            /\ IF out.next /\ route = "/webhooks/register"
               THEN register_webhook(out.business_id)
               ELSE UNCHANGED <<db, endpoints, lock, idemLock, pc, payload, tx,
                                ghost, started, last>>

\* generate_api_key for a business whose credentials verify: a fresh key,
\* stored by its digest with is_active = true; nothing is stored when the
\* INSERT fails
GenerateApiKey(b) ==
    LET n == Cardinality(apiKeys) - Cardinality(InitialApiKeys)
    IN  /\ n < MaxApiKeys
        /\ \/ apiKeys' = apiKeys \cup {ApiKeyRow(KeyNames[n + 1], b, TRUE)}
           \/ UNCHANGED apiKeys
        /\ UNCHANGED <<db, endpoints, lock, idemLock, pc, payload, tx, ghost,
                       last, started, gate, workers>>

AuthNext ==
    \/ \E route \in ProtectedRoutes \cup PublicRoutes, h \in Headers : Receive(route, h)
    \/ \E b \in Business : GenerateApiKey(b)

AuthSpec == Init /\ [][AuthNext]_vars

\* -------------------------------------------------------- process_webhooks

ledger == <<balance, idem, transactions, endpoints, lock, idemLock, pc, payload,
            tx, ghost, last, started, apiKeys, gate>>

\* the dequeue query, run on the pool as a statement of its own: its row
\* locks (FOR UPDATE OF we SKIP LOCKED) last as long as the statement; with no
\* row, or with Err, the loop sleeps and starts again
Dequeue(w) ==
    /\ workers[w].pc = "dequeue"
    /\ \/ /\ DueEvents(events, endpoints) # {}
          /\ \E q \in Batches(DueEvents(events, endpoints)) :
                workers' = [workers EXCEPT ![w] =
                               [pc |-> "post", rows |-> q, status |-> ""]]
       \/ UNCHANGED workers
    /\ UNCHANGED <<ledger, events>>

\* client.post(url).json(payload).send() for the first row in hand, and the
\* match on its result
Post(w) ==
    /\ workers[w].pc = "post"
    /\ \E result \in HttpResults :
          workers' = [workers EXCEPT
             ![w].pc = "update",
             ![w].status = new_status(result, Head(workers[w].rows).attempts)]
    /\ UNCHANGED <<ledger, events>>

\* the loop goes on to the next row, or to the next dequeue
NextRow(w) ==
    IF Tail(workers[w].rows) = <<>> THEN IdleWorker
    ELSE [pc |-> "post", rows |-> Tail(workers[w].rows), status |-> ""]

\* the UPDATE of the row just POSTed, on the pool
UpdateOk(w) ==
    /\ workers[w].pc = "update"
    /\ events' = update_event(events, Head(workers[w].rows).id, workers[w].status)
    /\ workers' = [workers EXCEPT ![w] = NextRow(w)]
    /\ UNCHANGED ledger

\* the UPDATE returns Err, which `let _ =` discards
UpdateErr(w) ==
    /\ workers[w].pc = "update"
    /\ workers' = [workers EXCEPT ![w] = NextRow(w)]
    /\ UNCHANGED <<ledger, events>>

Update(w) == UpdateOk(w) \/ UpdateErr(w)

\* BackoffBase seconds pass for the row; the time that has passed is counted
\* until the row's backoff is over, the query telling no later times apart
Elapse(id) ==
    /\ \E e \in events :
          /\ e.id = id /\ e.last_attempt_at.set
          /\ ~Backoff(e.last_attempt_at, e.attempts)
    /\ events' = {IF e.id = id
                  THEN [e EXCEPT !.last_attempt_at = Since(@.ago + BackoffBase)]
                  ELSE e : e \in events}
    /\ UNCHANGED <<ledger, workers>>

\* the endpoints business X registered before its transfer
QueuedEndpoints ==
    {[id |-> i, business_id |-> "X", is_active |-> TRUE] : i \in 1..MaxQueued}

QueuedIds == {<<1, i>> : i \in 1..MaxQueued}

\* the store after business X, with QueuedEndpoints registered, transferred
\* 6000 from account 1 to account 2 with key k1: one pending event per
\* endpoint; the dispatchers start
DispatchInit ==
    LET resp == TransferResponse(1, 1, 2, 6000, AccountCurrency[1])
    IN  /\ balance = [a \in Accounts |->
                        OpeningBalance + execute_balance_transfer(ZeroDelta, 1, 2, 6000)[a]]
        /\ idem = [ik \in IdemKeys |->
                     IF ik = <<"X", "k1">>
                     THEN store_idempotency_key(
                            [status |-> "pending", response_body |-> NoResponse], resp)
                     ELSE [status |-> "absent", response_body |-> NoResponse]]
        /\ transactions = {create_transaction_record(1, "X", 1, 2, 6000, "k1")}
        /\ endpoints = QueuedEndpoints
        /\ events = create_webhook_event(QueuedEndpoints, "X", "transfer.created", resp)
        /\ lock = [a \in Accounts |-> 0]
        /\ idemLock = [ik \in IdemKeys |-> 0]
        /\ pc = [s \in Slots |-> "idle"]
        /\ payload = [s \in Slots |-> NoRequest]
        /\ tx = [s \in Slots |-> EmptyTx]
        /\ ghost = [s \in Slots |-> NoGhost]
        /\ last = NoLast
        /\ started = 1
        /\ apiKeys = InitialApiKeys
        /\ gate = NoGate
        /\ workers = [w \in Workers |-> IdleWorker]

DispatchNext ==
    \/ \E w \in Workers : Dequeue(w)
    \/ \E w \in Workers : Post(w)
    \/ \E w \in Workers : Update(w)
    \/ \E id \in QueuedIds : Elapse(id)

DispatchSpec == DispatchInit /\ [][DispatchNext]_vars

\* every dispatcher keeps looping, time keeps passing, and the store does not
\* refuse the UPDATE of a dispatcher for ever
DispatchFairness ==
    /\ \A w \in Workers :
          WF_vars(Dequeue(w)) /\ WF_vars(Post(w)) /\ WF_vars(Update(w))
          /\ SF_vars(UpdateOk(w))
    /\ \A id \in QueuedIds : WF_vars(Elapse(id))

DispatchLive == DispatchSpec /\ DispatchFairness

\* ------------------------------------------------------------ for the claims

KeyOf(p) == <<p.business_id, p.idempotency_key>>

RowsFor(ik) ==
    {t \in transactions : <<t.business_id, t.idempotency_key>> = ik}

\* the account a request takes money from, 0 for a credit
SourceOf(p) ==
    IF p.kind = "transfer" THEN p.from_account_id
    ELSE IF p.transaction_type = "debit" THEN p.account_id
    ELSE 0

\* the request is past the checks of its fetch step, inside its transaction
InTransaction(s) ==
    pc[s] \in {"execute", "update_balance", "webhook", "store_key", "commit"}

RECURSIVE SumAmounts(_)
SumAmounts(T) ==
    IF T = {} THEN 0
    ELSE LET t == CHOOSE x \in T : TRUE
         IN  t.amount + SumAmounts(T \ {t})

\* C1: for every (business_id, idempotency_key) at most one committed
\* Transaction row references the key, whatever the interleaving of requests
\* carrying it (repeats, concurrent duplicates, retries after a failure).
C1_AtMostOneTransactionPerKey ==
    \A ik \in IdemKeys : Cardinality(RowsFor(ik)) <= 1

\* C2: a repetition of a request that started after the request had
\* committed never commits again: it inserts no second Transaction row and
\* changes no balance.
C2_RepeatAfterSuccessCommitsNothing ==
    ~(last.step = "Commit" /\ last.dup)

\* C3: the step that commits a transfer of n between two different accounts
\* lowers the source balance by exactly n, raises the destination balance by
\* exactly n and leaves every other balance as it was, so the sum of the two
\* balances is the same before and after.
C3_CommitMovesExactly ==
    \A s \in Slots :
        LET p == payload[s] f == p.from_account_id t == p.to_account_id
        IN  (/\ pc[s] = "commit" /\ pc'[s] = "idle"
             /\ p.kind = "transfer" /\ f # t)
            => /\ balance'[f] = balance[f] - p.amount
               /\ balance'[t] = balance[t] + p.amount
               /\ balance'[f] + balance'[t] = balance[f] + balance[t]
               /\ \A a \in Accounts \ {f, t} : balance'[a] = balance[a]

C3_Conservation == [][C3_CommitMovesExactly]_vars

C3_Witness ==
    /\ last.step = "Commit"
    /\ last.request = TransferRequest("X", 1, 2, 6000, "k1")
    /\ balance[1] = OpeningBalance - 6000
    /\ balance[2] = OpeningBalance + 6000

\* the errors the fetch step of a request gives for what it finds in the rows
DomainErrors ==
    {"Source account not found or does not belong to this business",
     "Account not found or does not belong to this business",
     "Destination account not found", "Currency mismatch",
     "Insufficient balance"}

\* the request names a source row of its business and, for a transfer, a
\* destination row of the same currency
ReachesBalanceCheck(p) ==
    /\ SourceOf(p) \in Accounts
    /\ AccountBusiness[SourceOf(p)] = p.business_id
    /\ p.kind = "transfer"
       => /\ p.to_account_id \in Accounts
          /\ AccountCurrency[p.to_account_id] = AccountCurrency[p.from_account_id]

\* C4: every committed balance is >= 0; a transfer or debit is inside its
\* transaction, past the balance check, only while it holds the lock of the
\* source row and the source balance covers its amount; and of the requests
\* the fetch step rejects for what it found in the rows, the ones rejected
\* with "Insufficient balance" are exactly those that reached the balance
\* check (source owned, destination found, currencies equal) with an amount
\* above the source balance.
C4_NonNegativeBalances ==
    /\ \A a \in Accounts : balance[a] >= 0
    /\ \A s \in Slots :
          (InTransaction(s) /\ SourceOf(payload[s]) # 0)
          => /\ lock[SourceOf(payload[s])] = s
             /\ balance[SourceOf(payload[s])] >= payload[s].amount
    /\ (last.step = "Rollback" /\ last.err \in DomainErrors
        /\ SourceOf(last.request) # 0)
       => (last.err = "Insufficient balance"
           <=> /\ ReachesBalanceCheck(last.request)
               /\ balance[SourceOf(last.request)] < last.request.amount)

C4_Witness ==
    /\ last.step = "Rollback"
    /\ last.err = "Insufficient balance"
    /\ balance[1] = OpeningBalance - 6000

\* C5: no state is reachable in which two transfers each hold an account row
\* lock the other is waiting for.
C5_NoLockCycle ==
    ~ \E s1, s2 \in Slots :
        /\ s1 # s2
        /\ pc[s1] = "fetch_to" /\ pc[s2] = "fetch_to"
        /\ lock[payload[s1].to_account_id] = s2
        /\ lock[payload[s2].to_account_id] = s1

\* C6: in every committed state each account's balance is its opening balance
\* plus the amounts of the committed Transactions that name it as destination
\* minus the amounts of those that name it as source: no update is lost and
\* none is applied without its Transaction row.
C6_BalancesMatchTransactions ==
    \A a \in Accounts :
        balance[a] = OpeningBalance
                     + SumAmounts({t \in transactions : t.to_account_id = a})
                     - SumAmounts({t \in transactions : t.from_account_id = a})

\* a committed Transaction touches account 1 while one operation holds the
\* row lock of account 1 and another is about to ask for it: the two
\* operations meet on the account and are applied one after the other
C6_Witness ==
    /\ \E t \in transactions : 1 \in {t.from_account_id, t.to_account_id}
    /\ \E s1, s2 \in Slots :
          /\ s1 # s2
          /\ pc[s1] \in {"fetch_from", "fetch_account"}
          /\ (SourceOf(payload[s1]) = 1 \/ payload[s1].account_id = 1)
          /\ lock[1] = s2
          /\ balance[1] # OpeningBalance

\* C7: a request whose reserve found the row of its key pending (the upsert
\* affected no row and the row is pending when the follow-up read runs) is
\* refused with "Operation in progress", and that step changes neither the
\* row nor any balance, Transaction or WebhookEvent.
C7_FollowupOnPending ==
    \A s \in Slots :
        (/\ pc[s] = "reserve_read"
         /\ idem[IKey(s)].status = "pending"
         /\ pc'[s] # "reserve_read")
        => /\ pc'[s] = "idle"
           /\ last'.err = "Operation in progress"
           /\ UNCHANGED db

C7_PendingIsRefused == [][C7_FollowupOnPending]_vars

\* C8 as claimed: when the handler has finished its failure handling the
\* idempotency row of the key has status failed.
C8_FailedAttemptEndsFailed ==
    last.step = "FailKey" => idem[KeyOf(last.request)].status = "failed"

\* C8 as amended: the step at which process_transfer / process_cd fails
\* commits nothing of the attempt (balances, Transaction rows, WebhookEvent
\* rows and idempotency rows stay as committed, the attempt's writes and row
\* locks are gone), and the out-of-band update that follows changes no
\* balance, Transaction or WebhookEvent and, when it succeeds, leaves the
\* row with status failed.
C8_FailureStep ==
    \A s \in Slots :
        /\ (pc[s] # "fail" /\ pc'[s] = "fail")
           => /\ UNCHANGED db
              /\ tx'[s] = EmptyTx
              /\ \A a \in Accounts : lock'[a] # s
              /\ \A ik \in IdemKeys : idemLock'[ik] # s
        /\ (pc[s] = "fail" /\ pc'[s] = "idle")
           => /\ UNCHANGED <<balance, transactions, events>>
              /\ last'.err = "" => idem'[IKey(s)].status = "failed"

C8_FailureRollsBack == [][C8_FailureStep]_vars

C8_Witness ==
    /\ last.step = "FailKey"
    /\ last.err = ""
    /\ idem[KeyOf(last.request)].status = "failed"
    /\ lock = [a \in Accounts |-> 0]

\* C9: when a request that reserve admitted as a retry of a failed key
\* commits, the key has status success and exactly one Transaction row
\* references the key.
C9_RetryCommitsOnce ==
    (last.step = "Commit" /\ last.retry)
    => /\ idem[KeyOf(last.request)].status = "success"
       /\ Cardinality(RowsFor(KeyOf(last.request))) = 1

\* C10: a request that names another tenant's account as the source of a
\* transfer or the account of a debit never gets past the fetch of that row:
\* it holds no row lock, writes nothing, and its transaction ends with the
\* not-found / not-owned error (or with the store error of its begin or of
\* that fetch); and every committed Transaction's source account belongs to
\* the Transaction's business.
CrossTenant(p) ==
    SourceOf(p) \in Accounts /\ AccountBusiness[SourceOf(p)] # p.business_id

C10_TenantIsolation ==
    /\ \A s \in Slots :
          CrossTenant(payload[s])
          => /\ ~InTransaction(s) /\ pc[s] # "fetch_to"
             /\ tx[s] = EmptyTx
             /\ \A a \in Accounts : lock[a] # s
    /\ \A t \in transactions :
          t.from_account_id # 0 => AccountBusiness[t.from_account_id] = t.business_id
    /\ (last.step = "Rollback" /\ CrossTenant(last.request))
       => last.err \in
            {"Source account not found or does not belong to this business",
             "Account not found or does not belong to this business",
             "Failed to start transaction", "Failed to fetch source account",
             "Failed to fetch account"}
    /\ (last.step = "Commit") => ~CrossTenant(last.request)

C10_Witness ==
    /\ last.step = "Rollback"
    /\ CrossTenant(last.request)
    /\ last.err \in {"Source account not found or does not belong to this business",
                     "Account not found or does not belong to this business"}
    /\ transactions # {}

\* a transfer between two rows of different currencies
CrossCurrency(p) ==
    /\ p.kind = "transfer"
    /\ p.from_account_id \in Accounts /\ p.to_account_id \in Accounts
    /\ AccountCurrency[p.from_account_id] # AccountCurrency[p.to_account_id]

\* C11: every committed Transaction of type transfer joins two accounts of
\* the same currency; a transfer between accounts of different currencies
\* never gets past its fetch step and holds no write; and of the transfers the
\* fetch step rejects for what it found in the rows, the ones rejected with
\* "Currency mismatch" are exactly those with an owned source, an existing
\* destination and two different currencies.
C11_SameCurrencyOnly ==
    /\ \A t \in transactions :
          t.type = "transfer"
          => AccountCurrency[t.from_account_id] = AccountCurrency[t.to_account_id]
    /\ \A s \in Slots :
          CrossCurrency(payload[s]) => ~InTransaction(s) /\ tx[s] = EmptyTx
    /\ (last.step = "Rollback" /\ last.err \in DomainErrors
        /\ last.request.kind = "transfer")
       => (last.err = "Currency mismatch"
           <=> /\ CrossCurrency(last.request)
               /\ AccountBusiness[last.request.from_account_id]
                    = last.request.business_id)

\* the transfer of 12000 from USD account 1 to EUR account 3 is rejected for
\* the currencies while account 1 holds 16000
C11_Witness ==
    /\ last.step = "Rollback"
    /\ last.err = "Currency mismatch"
    /\ CrossCurrency(last.request)
    /\ balance[last.request.from_account_id] >= last.request.amount

\* the endpoints create_webhook_event selects for business b
ActiveEndpoints(eps, b) == {e \in eps : e.business_id = b /\ e.is_active}

\* the events of table E that describe Transaction t
EventsOf(E, t) == {e \in E : e.payload.transaction_id = t.id}

\* every event describes a committed Transaction and belongs to an endpoint
\* of that Transaction's business, and a Transaction has at most one event
\* per endpoint
EventsMatchTransactions(T, E, P) ==
    /\ \A e \in E :
          \E t \in T :
             /\ e.payload.transaction_id = t.id
             /\ \E ep \in P : /\ ep.id = e.webhook_endpoint_id
                               /\ ep.business_id = t.business_id
    /\ \A e1, e2 \in E :
          (/\ e1.payload.transaction_id = e2.payload.transaction_id
           /\ e1.webhook_endpoint_id = e2.webhook_endpoint_id) => e1 = e2

\* C12: (1) in every committed state every WebhookEvent describes a committed
\* Transaction and belongs to an endpoint of that Transaction's tenant, at
\* most one per endpoint; (2) the step of an operation that reads the
\* endpoints prepares exactly one event for each active endpoint of the
\* tenant at that moment and none for another endpoint, and the operation
\* keeps that set until it ends; (3) the step that commits the Transaction
\* row commits exactly those events with it; (4) no other step of a handler
\* adds or removes an event or a Transaction.
C12_FanOutStep ==
    /\ EventsMatchTransactions(transactions', events', endpoints')
    /\ \A s \in Slots :
          /\ (pc[s] = "webhook" /\ pc'[s] = "store_key")
             => /\ {e.webhook_endpoint_id : e \in tx'[s].evs}
                     = {ep.id : ep \in ActiveEndpoints(endpoints, payload[s].business_id)}
                /\ Cardinality(tx'[s].evs)
                     = Cardinality(ActiveEndpoints(endpoints, payload[s].business_id))
                /\ \A e \in tx'[s].evs :
                      /\ e.payload = tx[s].resp
                      /\ e.status = "pending" /\ e.attempts = 0
          /\ (pc[s] = "store_key" /\ pc'[s] = "commit") => tx'[s].evs = tx[s].evs
          /\ (pc[s] = "commit" /\ pc'[s] = "idle")
             => /\ transactions' = transactions \cup tx[s].txn
                /\ events' = events \cup tx[s].evs
                /\ tx[s].txn # {}
                /\ \A e \in tx[s].evs : \A t \in tx[s].txn :
                      e.payload.transaction_id = t.id
    /\ (\A s \in Slots : ~(pc[s] = "commit" /\ pc'[s] = "idle"))
       => /\ events' = events
          /\ transactions' = transactions

C12_AtomicFanOut == [][C12_FanOutStep]_vars

\* business X has two endpoints; one of its Transactions was committed with
\* an event for each of them, another read the endpoints when only one of them
\* was registered; the Transaction of business Y has no event
C12_Witness ==
    /\ Cardinality(ActiveEndpoints(endpoints, "X")) = 2
    /\ \E t1, t2 \in transactions :
          /\ t1.business_id = "X" /\ t2.business_id = "X"
          /\ Cardinality(EventsOf(events, t1)) = 2
          /\ Cardinality(EventsOf(events, t2)) = 1
    /\ \E t \in transactions :
          t.business_id = "Y" /\ EventsOf(events, t) = {}

Terminal(e) == e.status \in {"delivered", "failed"}

\* the ids of the rows dispatcher w has in hand
InHand(w) == {workers[w].rows[i].id : i \in DOMAIN workers[w].rows}

\* the step is the dequeue of dispatcher w, its POST, its UPDATE
Dequeues(w) == workers[w].pc = "dequeue" /\ workers'[w].pc = "post"
Posts(w) == workers[w].pc = "post" /\ workers'[w].pc = "update"
Updates(w) == workers[w].pc = "update" /\ workers'[w].pc # "update"

\* C13: an event whose status is delivered or failed keeps its status, its
\* attempts and its last_attempt_at in every step (no step stamps it with a
\* new NOW(); time passing over the old stamp is no write), no dispatcher
\* dequeues it and no dispatcher POSTs it.
C13_TerminalStep ==
    \A e \in events :
        Terminal(e)
        => /\ \E e2 \in events' :
                 /\ e2.id = e.id
                 /\ e2.status = e.status
                 /\ e2.attempts = e.attempts
                 /\ e2.last_attempt_at.set = e.last_attempt_at.set
                 /\ e2.last_attempt_at.ago >= e.last_attempt_at.ago
           /\ \A w \in Workers :
                 /\ Dequeues(w) => \A i \in DOMAIN workers'[w].rows :
                                      workers'[w].rows[i].id # e.id
                 /\ Posts(w) => Head(workers[w].rows).id # e.id

C13_TerminalStatesAreFinal == [][C13_TerminalStep]_vars

\* C14: no POST is made for an event that already has 5 recorded attempts,
\* and the UPDATE that records a failed delivery as the event's 5th attempt
\* leaves the event with status failed.
C14_FifthFailureStep ==
    \A w \in Workers :
        /\ Posts(w) => Head(workers[w].rows).attempts < MaxAttempts
        /\ \A e \in events :
              (/\ Updates(w) /\ events' # events
               /\ e.id = Head(workers[w].rows).id
               /\ workers[w].status # "delivered"
               /\ e.attempts = MaxAttempts - 1)
              => \E e2 \in events' : e2.id = e.id /\ e2.status = "failed"

C14_AtMostFiveFailures == [][C14_FifthFailureStep]_vars

\* C15: no event is in the hands of two dispatchers at once: an event one
\* dispatcher selected is not selected by another before the first has
\* written the outcome of its attempt.
C15_OneDispatcherPerEvent ==
    \A w1, w2 \in Workers : w1 # w2 => InHand(w1) \cap InHand(w2) = {}

C17_AttemptsStep ==
    /\ \A e \in events : \A e2 \in events' :
          e2.id = e.id => e2.attempts >= e.attempts
    /\ \A e2 \in events' :
          e2.status = "pending" => e2.attempts <= MaxAttempts

C17_AttemptsBounded == [][C17_AttemptsStep]_vars

\* a header that carries a key: present, readable as a string, not empty
Presents(h) == h.present /\ h.text /\ h.value # ""

\* the active rows of the store that the header's key hashes to
Matching(h, rows) == {r \in rows : r.is_active /\ r.key_hash = Sha256Hex(h.value)}

Handlers == {HandlerOf(r) : r \in ProtectedRoutes}

\* C18: after every step, a request that is in one of the protected handlers
\* carried a non-empty key whose digest is the key_hash of an active row, and
\* the business attached to it is that row's; a request on a protected route
\* with no key, an empty key or an unknown key was answered 401, one whose
\* lookup met a store error was answered 500 (a request over its rate limit
\* is answered by the limiter); a step that ends with a request answered 401
\* or 500 changes nothing in the store.
C18_GateStep ==
    /\ gate'.handler \in Handlers
       => /\ Presents(gate'.header)
          /\ \E r \in Matching(gate'.header, apiKeys') :
                r.business_id = gate'.business_id
    /\ (gate'.route \in ProtectedRoutes /\ ~gate'.throttled)
       => /\ ~Presents(gate'.header) => gate'.status = 401
          /\ (Presents(gate'.header) /\ gate'.store_error) => gate'.status = 500
          /\ (/\ Presents(gate'.header) /\ ~gate'.store_error
              /\ Matching(gate'.header, apiKeys') = {}) => gate'.status = 401
    /\ gate'.status \in {401, 500}
       => UNCHANGED <<db, endpoints, lock, idemLock, pc, payload, tx, started>>

C18_AuthenticationGate == [][C18_GateStep]_vars

\* C19: the upsert of reserve that meets the row of its key with status
\* failed admits the request (it is refused only when the store fails the
\* statement) and leaves the row with status pending, so that another request
\* with the key is refused while this one runs.
C19_UpsertOnFailed ==
    \A s \in Slots :
        (/\ pc[s] = "reserve"
         /\ idem[IKey(s)].status = "failed"
         /\ pc'[s] # "reserve")
        => IF pc'[s] = "idle"
           THEN last'.err = "Failed to reserve idempotency key"
           ELSE pc'[s] = First(s) /\ idem'[IKey(s)].status = "pending"

C19_FailedKeyIsRearmed == [][C19_UpsertOnFailed]_vars

\* C20: a request that missed the cache and whose reserve meets the row of
\* its key with status success (the upsert affects no row, the follow-up read
\* runs on a success row) is refused with "Operation already completed
\* successfully"; the steps of its reserve change no balance, Transaction,
\* WebhookEvent or idempotency row.
C20_ReserveOnSuccess ==
    \A s \in Slots :
        /\ (/\ pc[s] = "reserve"
            /\ idem[IKey(s)].status = "success"
            /\ pc'[s] # "reserve")
           => pc'[s] \in {"reserve_read", "idle"} /\ UNCHANGED db
        /\ (/\ pc[s] = "reserve_read"
            /\ idem[IKey(s)].status = "success"
            /\ pc'[s] # "reserve_read")
           => /\ pc'[s] = "idle"
              /\ last'.err = "Operation already completed successfully"
              /\ UNCHANGED db

C20_RaceIsClosed == [][C20_ReserveOnSuccess]_vars


\* the account rows of its transfer that the transaction of slot s holds
HeldPair(s) ==
    {a \in {payload[s].from_account_id, payload[s].to_account_id} : lock[a] = s}

\* C21: a transfer's transaction that holds the lock of one of its two
\* account rows and not yet the other holds the one with the lower id: the
\* rows are locked in ascending order of id, whichever is the source.
C21_AscendingLockOrder ==
    \A s \in Slots :
        LET f == payload[s].from_account_id t == payload[s].to_account_id
        IN  (payload[s].kind = "transfer" /\ f # t /\ Cardinality(HeldPair(s)) = 1)
            => HeldPair(s) = {IF f < t THEN f ELSE t}


\* C22: in every committed state a Transaction row references a key exactly
\* when the idempotency row of the key has status success, and the response
\* stored in that row carries the id of such a Transaction.
C22_KeyCommitsWithLedger ==
    \A ik \in IdemKeys :
        /\ RowsFor(ik) # {} <=> idem[ik].status = "success"
        /\ idem[ik].status = "success"
           => \E t \in RowsFor(ik) : idem[ik].response_body.transaction_id = t.id


\* C29: once the idempotency row of a key has status success, no step changes
\* its status or its stored response.
C29_SuccessStep ==
    \A ik \in IdemKeys :
        idem[ik].status = "success" => idem'[ik] = idem[ik]

C29_SuccessIsAbsorbing == [][C29_SuccessStep]_vars


\* C23: every row a dequeue selects is a pending event whose last_attempt_at
\* is unset or lies more than 10 x (attempts + 1) seconds back, and a dequeue
\* that returns rows returns every pending event of an active endpoint whose
\* last_attempt_at is unset (there being no more than the LIMIT of them).
C23_DequeueStep ==
    \A w \in Workers :
        Dequeues(w)
        => /\ \A i \in DOMAIN workers'[w].rows :
                 \E e \in events :
                    /\ e.id = workers'[w].rows[i].id
                    /\ e.status = "pending"
                    /\ e.last_attempt_at.set
                       => e.last_attempt_at.ago > 10 * (e.attempts + 1)
           /\ \A e \in events :
                 (/\ e.status = "pending" /\ ~e.last_attempt_at.set
                  /\ \E ep \in endpoints :
                        ep.id = e.webhook_endpoint_id /\ ep.is_active)
                 => \E i \in DOMAIN workers'[w].rows :
                       workers'[w].rows[i].id = e.id

C23_LinearBackoff == [][C23_DequeueStep]_vars

\* a dispatcher has in hand an event it selected for its third attempt, 40
\* seconds after the second
C23_Witness ==
    \E w \in Workers : \E e \in events :
        /\ workers[w].pc = "post"
        /\ Head(workers[w].rows) = [id |-> e.id, attempts |-> 2]
        /\ e.status = "pending"
        /\ e.last_attempt_at = Since(40)


\* the event row with this id, before and after the step
EventRow(id) == CHOOSE e \in events : e.id = id
EventRowAfter(id) == CHOOSE e \in events' : e.id = id

\* what the POST of a step decides: delivered for a 2xx, and for a non-2xx
\* status exactly what it decides for a transport error
PostOutcome(w) ==
    LET a == Head(workers[w].rows).attempts
    IN  /\ workers'[w].status \in {"delivered", new_status("non2xx", a)}
        /\ new_status("non2xx", a) = new_status("transport", a)
        /\ new_status("2xx", a) = "delivered"

\* C24 as claimed: every delivery attempt (the POST and the UPDATE that
\* follows it) leaves the event with attempts one higher and last_attempt_at
\* stamped, with status delivered when the POST was answered 2xx; a non-2xx
\* answer and a transport error decide the same status.
C24_AttemptStep ==
    \A w \in Workers :
        /\ Posts(w) => PostOutcome(w)
        /\ Updates(w)
           => LET id == Head(workers[w].rows).id
              IN  /\ EventRowAfter(id).attempts = EventRow(id).attempts + 1
                  /\ EventRowAfter(id).last_attempt_at = Since(0)
                  /\ workers[w].status = "delivered"
                     => EventRowAfter(id).status = "delivered"

C24_EveryAttemptIsRecorded == [][C24_AttemptStep]_vars

\* C24 as amended: every delivery attempt whose UPDATE the store executes
\* leaves the event with attempts one higher and last_attempt_at stamped,
\* with status delivered when the POST was answered 2xx (so f failures and a
\* 2xx end with delivered and attempts f + 1); an attempt whose UPDATE the
\* store refuses leaves the row as it was; a non-2xx answer and a transport
\* error decide the same status.
C24_ExecutedAttemptStep ==
    \A w \in Workers :
        /\ Posts(w) => PostOutcome(w)
        /\ Updates(w)
           => LET id == Head(workers[w].rows).id
              IN  \/ events' = events
                  \/ /\ EventRowAfter(id).attempts = EventRow(id).attempts + 1
                     /\ EventRowAfter(id).last_attempt_at = Since(0)
                     /\ EventRowAfter(id).status = workers[w].status
                     /\ \A e \in events : e.id # id => e \in events'

C24_ExecutedAttemptIsRecorded == [][C24_ExecutedAttemptStep]_vars

\* four failed attempts and a 2xx: the event is delivered with attempts 5
C24_Witness ==
    /\ \E e \in events : e.status = "delivered" /\ e.attempts = 5
    /\ \A w \in Workers : workers[w] = IdleWorker


\* the request of slot s has reserved its key and has not returned yet
HoldsKey(s, ik) ==
    /\ pc[s] \notin {"idle", "check", "reserve", "reserve_read"}
    /\ IKey(s) = ik

HoldsKeyAfter(s, ik) ==
    /\ pc'[s] \notin {"idle", "check", "reserve", "reserve_read"}
    /\ <<payload'[s].business_id, payload'[s].idempotency_key>> = ik

\* C25 as amended: a row is left pending with no running request behind it
\* only by a failure update that the store refused; the commit of a request
\* leaves the row of its key success and an executed failure update leaves it
\* failed.
C25_PendingStep ==
    /\ \A ik \in IdemKeys :
          (/\ idem'[ik].status = "pending"
           /\ ~ \E s \in Slots : HoldsKeyAfter(s, ik))
          => \/ /\ idem[ik].status = "pending"
                /\ ~ \E s \in Slots : HoldsKey(s, ik)
             \/ /\ last'.step = "FailKey"
                /\ last'.err = "Failed to set idempotency key failure status"
                /\ KeyOf(last'.request) = ik
    /\ \A s \in Slots :
          (pc[s] # "idle" /\ HoldsKey(s, IKey(s)) /\ pc'[s] = "idle")
          => \/ last'.step = "Commit" /\ idem'[IKey(s)].status = "success"
             \/ /\ last'.step = "FailKey" /\ last'.err = ""
                /\ idem'[IKey(s)].status = "failed"
             \/ /\ last'.step = "FailKey" /\ last'.err # ""
                /\ idem' = idem

Uncommitted(s) == tx[s].evs
UncommittedAfter(s) == tx'[s].evs

\* C26: the step that registers an endpoint leaves the WebhookEvent rows as
\* they were, those of open transactions included, so nothing is queued for
\* the new endpoint by its registration; and every event, committed or still
\* in its transaction, is for an endpoint that was registered when the
\* transaction read the endpoint set.
C26_RegisterStep ==
    /\ endpoints' # endpoints
       => /\ events' = events
          /\ \A s \in Slots : UncommittedAfter(s) = Uncommitted(s)
          /\ \A ep \in endpoints' \ endpoints :
                /\ \A e \in events' : e.webhook_endpoint_id # ep.id
                /\ \A s \in Slots : \A e \in UncommittedAfter(s) :
                      e.webhook_endpoint_id # ep.id
    /\ \A s \in Slots : \A e \in UncommittedAfter(s) \ Uncommitted(s) :
          \E ep \in endpoints : ep.id = e.webhook_endpoint_id
    /\ \A e \in events' \ events :
          \E s \in Slots : e \in Uncommitted(s)

C26_NoHistoricalEvents == [][C26_RegisterStep]_vars

\* an endpoint of a business with two committed Transactions: the one whose
\* transaction read the endpoints before the registration has no event for
\* it, the one that read them afterwards has one
C26_Witness ==
    \E ep \in endpoints : \E t1, t2 \in transactions :
        /\ t1.business_id = ep.business_id /\ t2.business_id = ep.business_id
        /\ t1.id < t2.id
        /\ \A e \in EventsOf(events, t1) : e.webhook_endpoint_id # ep.id
        /\ \E e \in EventsOf(events, t2) : e.webhook_endpoint_id = ep.id


\* a debit and a credit were sent, nothing else, and both have committed
BothCommitted ==
    /\ started = 2
    /\ \A s \in Slots : pc[s] = "idle"
    /\ idem[<<"X", "k1">>].status = "success"
    /\ idem[<<"X", "k2">>].status = "success"

\* C27: when a debit and a credit on account 1 of business X (distinct keys)
\* have both committed, exactly two Transaction rows exist, one of type debit
\* from the account and one of type credit to it, the balance is the opening
\* balance less the debit plus the credit (the opening balance when the
\* amounts are equal), and every event of a Transaction has the event type
\* of the Transaction's type; each commit returns as new_balance the
\* committed balance of the account right after it and adds one event per
\* endpoint its transaction found active, with its response as payload.
C27_RoundTripStep ==
    /\ BothCommitted'
       => \E td, tc \in transactions' :
             /\ transactions' = {td, tc}
             /\ td.type = "debit" /\ td.from_account_id = 1 /\ td.to_account_id = 0
             /\ tc.type = "credit" /\ tc.to_account_id = 1 /\ tc.from_account_id = 0
             /\ balance'[1] = OpeningBalance - td.amount + tc.amount
             /\ td.amount = tc.amount => balance'[1] = OpeningBalance
             /\ \A a \in Accounts \ {1} : balance'[a] = OpeningBalance
             /\ \A e \in events' :
                   \/ e.payload.transaction_id = td.id /\ e.event_type = "debit.created"
                   \/ e.payload.transaction_id = tc.id /\ e.event_type = "credit.created"
    /\ \A s \in Slots :
          (pc[s] = "commit" /\ pc'[s] = "idle" /\ last'.step = "Commit")
          => /\ last'.resp.new_balance = balance'[payload[s].account_id]
             /\ events' = events \cup Uncommitted(s)
             /\ \A e \in Uncommitted(s) : e.payload = last'.resp
    /\ \A s \in Slots :
          (pc[s] = "webhook" /\ pc'[s] = "store_key")
          => /\ \A ep \in ActiveEndpoints(endpoints, payload[s].business_id) :
                   Cardinality({e \in UncommittedAfter(s) :
                                   e.webhook_endpoint_id = ep.id}) = 1
             /\ \A e \in UncommittedAfter(s) :
                   e.event_type = EventType(payload[s])

C27_DebitCreditRoundTrip == [][C27_RoundTripStep]_vars

\* the whole opening balance was debited and credited back with an endpoint
\* registered: balance restored, and one event of each type for the endpoint
C27_Witness ==
    /\ BothCommitted
    /\ balance[1] = OpeningBalance
    /\ \E td, tc \in transactions :
          /\ td.type = "debit" /\ tc.type = "credit"
          /\ td.amount = OpeningBalance /\ tc.amount = OpeningBalance
          /\ td.id < tc.id
    /\ \E e1, e2 \in events :
          /\ e1.event_type = "debit.created" /\ e1.payload.new_balance = 0
          /\ e2.event_type = "credit.created"
          /\ e2.payload.new_balance = OpeningBalance
          /\ e1.webhook_endpoint_id = e2.webhook_endpoint_id


\* the account on the originating side of a Transaction row
Originating(t) ==
    IF t.type = "credit" THEN t.to_account_id ELSE t.from_account_id

\* C28: the account on the originating side of every committed Transaction
\* (from_account_id for a transfer or a debit, to_account_id for a credit)
\* is an account of the Transaction's business; a credit has no
\* from_account_id and a debit no to_account_id.
C28_OriginatingSideOwned ==
    \A t \in transactions :
        /\ t.type \in {"transfer", "debit", "credit"}
        /\ Originating(t) \in Accounts
        /\ AccountBusiness[Originating(t)] = t.business_id
        /\ t.type = "credit" => t.from_account_id = 0
        /\ t.type = "debit" => t.to_account_id = 0
        /\ t.type = "transfer" => t.to_account_id \in Accounts

\* a credit and a transfer into another business's account are committed,
\* and a debit on another business's account was turned away
C28_Witness ==
    /\ \E t \in transactions : t.type = "credit" /\ t.to_account_id = 1
    /\ \E t \in transactions :
          /\ t.type = "transfer"
          /\ AccountBusiness[t.to_account_id] # t.business_id
    /\ last.step = "FailKey"
    /\ last.request = CreditDebitRequest("X", 2, 6000, "debit", "k2")


\* the request has an amount <= 0, an account id that does not parse, or a
\* transaction_type other than credit and debit
Malformed(p) ==
    \/ p.amount <= 0
    \/ p.kind = "transfer" /\ (p.from_account_id < 1 \/ p.to_account_id < 1)
    \/ p.kind = "cd" /\ p.account_id < 1
    \/ p.kind = "cd" /\ p.transaction_type \notin {"credit", "debit"}

\* C30: a request is turned away at its start exactly when it is malformed;
\* the step that turns it away leaves every idempotency row, balance,
\* Transaction, WebhookEvent, lock and open transaction as it was and
\* occupies no slot, and a well-formed request is taken up with its body.
C30_StartStep ==
    started' # started
    => IF last'.step = "Start"
       THEN /\ Malformed(last'.request)
            /\ last'.err \in {"Amount must be positive",
                              "Invalid from_account_id format",
                              "Invalid to_account_id format",
                              "Invalid account_id format",
                              "Invalid transaction_type. Must be 'credit' or 'debit'"}
            /\ UNCHANGED <<db, endpoints, lock, idemLock, tx, pc, payload>>
       ELSE \E s \in Slots :
               /\ pc[s] = "idle" /\ pc'[s] = "check"
               /\ ~Malformed(payload'[s])
               /\ UNCHANGED db

C30_ValidationTouchesNothing == [][C30_StartStep]_vars

\* a malformed request with key k1 was just turned away, the row of k1 does
\* not exist, and another request of the business has committed meanwhile
C30_Witness ==
    /\ last.step = "Start"
    /\ last.err = "Invalid to_account_id format"
    /\ idem[KeyOf(last.request)].status = "absent"
    /\ transactions # {}


\* the request of slot s has not yet been admitted by reserve
BeforeAdmission(s) == pc[s] \in {"check", "reserve", "reserve_read"}

\* C31: a request that has not been admitted yet and takes a step while the
\* row of its key has status success changes no balance, Transaction,
\* WebhookEvent or idempotency row, opens no transaction and is not admitted
\* to its operation, whatever its body; the cache check answers it only with
\* the stored response of its own operation type, marked cached, and the
\* follow-up read of reserve only with "Operation already completed
\* successfully".
C31_ReuseStep ==
    \A s \in Slots :
        (/\ BeforeAdmission(s)
         /\ idem[IKey(s)].status = "success"
         /\ pc'[s] # pc[s])
        => /\ UNCHANGED <<db, tx, lock, idemLock>>
           /\ pc'[s] \in {"reserve", "reserve_read", "idle"}
           /\ (pc[s] = "check" /\ pc'[s] = "idle")
              => /\ idem[IKey(s)].response_body.kind = payload[s].kind
                 /\ last'.err = ""
                 /\ last'.resp = [idem[IKey(s)].response_body EXCEPT !.cached = TRUE]
           /\ (pc[s] = "reserve_read" /\ pc'[s] = "idle")
              => last'.err = "Operation already completed successfully"

C31_KeyReuseNeverMutates == [][C31_ReuseStep]_vars


\* a transfer from an account of the caller to the same account
SelfTransfer(p) ==
    /\ p.kind = "transfer"
    /\ p.from_account_id = p.to_account_id
    /\ OwnedRow(p.from_account_id, p.business_id)

\* C32: a transfer from an account of the caller to the same account holds
\* the row's lock when it comes to lock the destination, so the second lock
\* is granted; with balance >= amount the destination step goes on to the
\* execution unless the store fails; its transaction carries one Transaction
\* row from the account to itself and one WebhookEvent for every active
\* endpoint of the business; its commit leaves every balance as it was and
\* adds exactly that row and those events.
C32_SelfTransferStep ==
    \A s \in Slots :
        LET p == payload[s] a == p.from_account_id
        IN  SelfTransfer(p)
            => /\ pc'[s] = "fetch_to" => lock'[a] = s
               /\ (pc[s] = "fetch_to" /\ pc'[s] # "fetch_to" /\ balance[a] >= p.amount)
                  => \/ pc'[s] = "execute" /\ lock'[a] = s
                     \/ last'.err = "Failed to fetch destination account"
               /\ (pc[s] = "webhook" /\ pc'[s] = "store_key")
                  => /\ Cardinality(tx'[s].evs) = Cardinality(ActiveEndpoints(endpoints, p.business_id))
                     /\ \A e \in ActiveEndpoints(endpoints, p.business_id) :
                           \E ev \in tx'[s].evs :
                              /\ ev.webhook_endpoint_id = e.id
                              /\ ev.event_type = "transfer.created"
                              /\ ev.payload = tx[s].resp
               /\ (pc[s] = "commit" /\ pc'[s] = "idle")
                  => /\ balance' = balance
                     /\ last'.err = ""
                     /\ \E t \in transactions' :
                           /\ transactions' = transactions \cup {t}
                           /\ t \notin transactions
                           /\ t.from_account_id = a /\ t.to_account_id = a
                           /\ t.amount = p.amount /\ t.type = "transfer"
                           /\ t.business_id = p.business_id
                           /\ last'.resp.transaction_id = t.id
                     /\ events' = events \cup tx[s].evs
                     /\ \A ev \in tx[s].evs : ev \notin events

C32_SelfTransferIsNeutral == [][C32_SelfTransferStep]_vars

\* a self-transfer of 6000 on account 1 has just committed while an endpoint
\* of the business was active: the balance is the opening balance, the
\* Transaction row and the event of the endpoint exist
C32_Witness ==
    /\ last.step = "Commit"
    /\ last.err = ""
    /\ last.request = TransferRequest("X", 1, 1, 6000, "k1")
    /\ balance[1] = OpeningBalance
    /\ \E t \in transactions :
          /\ t.from_account_id = 1 /\ t.to_account_id = 1
          /\ \E e \in endpoints :
                /\ e.business_id = "X"
                /\ \E ev \in events :
                      /\ ev.webhook_endpoint_id = e.id
                      /\ ev.payload.transaction_id = t.id

====
